---- MODULE Spec2Model ----
(***************************************************************************)
(* Echo journal: the Markdown entry codec (formatEntry / parseMarkdown),   *)
(* the journal store over a directory handle (readDailyJournal,            *)
(* appendToJournal, rewriteJournal, searchJournalFiles) and the handlers   *)
(* of App.tsx that drive the store.                                        *)
(*                                                                         *)
(* Text is a sequence of one-character strings.  A Date is a record        *)
(* [day, ms]: day counts local calendar days from 2000-01-01 and ms is the *)
(* offset inside that day (no daylight-saving shift is modelled).          *)
(***************************************************************************)
EXTENDS Integers, Sequences, FiniteSets, TLC

\* ------------------------------------------------------------------------
\* Text helpers (String.prototype methods used by the source)
\* ------------------------------------------------------------------------

NL == "\n"

CR == "\r"

\* characters removed by String.prototype.trim
WhiteSpace == {" ", "\t", NL, CR}

\* characters the regex atom '.' does not match
LineTerminators == {NL, CR}

DigitChars == <<"0", "1", "2", "3", "4", "5", "6", "7", "8", "9">>

IsDigit(c) == \E i \in 1..10 : DigitChars[i] = c

DigitVal(c) == (CHOOSE i \in 1..10 : DigitChars[i] = c) - 1

DigitChar(n) == DigitChars[n + 1]

\* two-digit zero padded decimal of n (n taken modulo 100)
Pad2(n) == <<DigitChar((n % 100) \div 10), DigitChar(n % 10)>>

Pad4(n) == Pad2(n \div 100) \o Pad2(n % 100)

Drop(s, n) == SubSeq(s, n + 1, Len(s))

Take(s, n) == SubSeq(s, 1, n)

startsWith(s, p) == Len(p) <= Len(s) /\ Take(s, Len(p)) = p

endsWith(s, p) == Len(p) <= Len(s) /\ Drop(s, Len(s) - Len(p)) = p

\* positions at which sub occurs in s
Occurrences(s, sub) ==
    {i \in 1..(Len(s) - Len(sub) + 1) : SubSeq(s, i, i + Len(sub) - 1) = sub}

includes(s, sub) == Len(sub) = 0 \/ Occurrences(s, sub) # {}

trim(s) ==
    LET keep == {i \in 1..Len(s) : s[i] \notin WhiteSpace}
    IN  IF keep = {} THEN <<>>
        ELSE LET lo == CHOOSE i \in keep : \A j \in keep : i <= j
                 hi == CHOOSE i \in keep : \A j \in keep : j <= i
             IN  SubSeq(s, lo, hi)

\* text.split('\n'): always at least one piece
RECURSIVE split(_)
split(s) ==
    LET nls == {i \in 1..Len(s) : s[i] = NL}
    IN  IF nls = {} THEN <<s>>
        ELSE LET k == CHOOSE i \in nls : \A j \in nls : i <= j
             IN  <<Take(s, k - 1)>> \o split(Drop(s, k))

\* lines.join('\n')
RECURSIVE join(_)
join(ls) ==
    IF Len(ls) = 0 THEN <<>>
    ELSE IF Len(ls) = 1 THEN ls[1]
    ELSE ls[1] \o <<NL>> \o join(Tail(ls))

UpperChars == <<"A", "B", "C">>

LowerChars == <<"a", "b", "c">>

\* String.prototype.toLowerCase on the letters of the model's alphabet
toLowerCase(s) ==
    [i \in 1..Len(s) |->
        IF \E k \in 1..Len(UpperChars) : UpperChars[k] = s[i]
        THEN LowerChars[CHOOSE k \in 1..Len(UpperChars) : UpperChars[k] = s[i]]
        ELSE s[i]]

\* every character is matched by the regex atom '.'
AllDots(s) == \A i \in 1..Len(s) : s[i] \notin LineTerminators

\* ------------------------------------------------------------------------
\* Dates (Date, date-fns format)
\* ------------------------------------------------------------------------

MsPerMinute == 60 * 1000

MsPerHour == 60 * MsPerMinute

MsPerDay == 24 * MsPerHour

MkDate(d, h, m, extra) == [day |-> d, ms |-> h * MsPerHour + m * MsPerMinute + extra]

\* sign of a.getTime() - b.getTime()
TimeLess(a, b) == a.day < b.day \/ (a.day = b.day /\ a.ms < b.ms)

\* Date.prototype.setHours(hours, minutes, 0, 0): out-of-range values roll over
setHours(date, hours, minutes) ==
    LET total == hours * 60 + minutes
    IN  [day |-> date.day + (total \div (24 * 60)),
         ms  |-> (total % (24 * 60)) * MsPerMinute]

getHours(date) == date.ms \div MsPerHour

getMinutes(date) == (date.ms % MsPerHour) \div MsPerMinute

\* proleptic Gregorian calendar date of a day number (day 0 = 2000-01-01)
Civil(dayNo) ==
    LET z   == dayNo + 10957 + 719468
        era == z \div 146097
        doe == z - era * 146097
        yoe == (doe - (doe \div 1460) + (doe \div 36524) - (doe \div 146096)) \div 365
        doy == doe - (365 * yoe + (yoe \div 4) - (yoe \div 100))
        mp  == (5 * doy + 2) \div 153
        d   == doy - ((153 * mp + 2) \div 5) + 1
        m   == IF mp < 10 THEN mp + 3 ELSE mp - 9
        y   == yoe + era * 400 + (IF m <= 2 THEN 1 ELSE 0)
    IN  [y |-> y, m |-> m, d |-> d]

\* day number of new Date(year, monthIndex, day): month and day roll over
DayNumber(year, monthIndex, dayOfMonth) ==
    LET y0  == year + (monthIndex \div 12)
        m   == (monthIndex % 12) + 1
        y   == IF m <= 2 THEN y0 - 1 ELSE y0
        era == y \div 400
        yoe == y - era * 400
        mp  == IF m > 2 THEN m - 3 ELSE m + 9
        doy == ((153 * mp + 2) \div 5)
        doe == yoe * 365 + (yoe \div 4) - (yoe \div 100) + doy
    IN  era * 146097 + doe - 719468 - 10957 + (dayOfMonth - 1)

\* format(date, 'HH:mm')
formatHHmm(date) == Pad2(getHours(date)) \o <<":">> \o Pad2(getMinutes(date))

\* format(date, 'yyMMdd')
formatYYMMDD(date) ==
    LET c == Civil(date.day) IN Pad2(c.y) \o Pad2(c.m) \o Pad2(c.d)

\* format(date, 'yyyy-MM-dd')
formatISO(date) ==
    LET c == Civil(date.day)
    IN  Pad4(c.y) \o <<"-">> \o Pad2(c.m) \o <<"-">> \o Pad2(c.d)

\* the month is written without its leading zero
getFileName_unpadded(date) ==
    LET c == Civil(date.day)
    IN  Pad2(c.y) \o (IF c.m < 10 THEN <<DigitChar(c.m)>> ELSE Pad2(c.m)) \o Pad2(c.d)
            \o <<".", "m", "d">>

getFileName(date) == formatYYMMDD(date) \o <<".", "m", "d">>

\* ------------------------------------------------------------------------
\* Entry codec
\* ------------------------------------------------------------------------

Marker == <<"#", "i", "m", "p", "o", "r", "t", "a", "n", "t">>

SrcUser == <<"u", "s", "e", "r">>

SrcChat == <<"c", "h", "a", "t">>

SrcWebInput == <<"w", "e", "b", "-", "i", "n", "p", "u", "t">>

SrcAiReply == <<"a", "i", "-", "r", "e", "p", "l", "y">>

\* the marker is appended whenever the entry is important
formatEntry_alwaysTag(entry) ==
    LET sourceTag == IF Len(entry.source) > 0 /\ entry.source # SrcUser
                     THEN <<" ", "[">> \o entry.source \o <<"]">>
                     ELSE <<>>
        importantTag == IF entry.isImportant THEN <<" ">> \o Marker ELSE <<>>
    IN  IF entry.hasTime = FALSE
        THEN <<"-", " ">> \o entry.content \o importantTag
        ELSE <<"-", " ">> \o formatHHmm(entry.timestamp) \o sourceTag
                 \o <<" ">> \o entry.content \o importantTag

formatEntry(entry) ==
    LET sourceTag == IF Len(entry.source) > 0 /\ entry.source # SrcUser
                     THEN <<" ", "[">> \o entry.source \o <<"]">>
                     ELSE <<>>
        importantTag == IF entry.isImportant /\ ~includes(entry.content, Marker)
                        THEN <<" ">> \o Marker
                        ELSE <<>>
    IN  IF entry.hasTime = FALSE
        THEN <<"-", " ">> \o entry.content \o importantTag
        ELSE <<"-", " ">> \o formatHHmm(entry.timestamp) \o sourceTag
                 \o <<" ">> \o entry.content \o importantTag

\* /^- (\d{1,2}:\d{2})(?: \[(.*?)\])? (.*)$/ : the match as a record
\* [ok, hours, minutes, hasSource, source, content]
NoTimeMatch == [ok |-> FALSE, hours |-> 0, minutes |-> 0, source |-> <<>>, content |-> <<>>]

\* the tail of a timed line after the time: (?: \[(.*?)\])? (.*)$
timeRegexTail(rest, hours, minutes) ==
    LET \* closing brackets that let the optional source group match
        closers == {k \in 3..Len(rest) :
                      /\ rest[1] = " " /\ rest[2] = "["
                      /\ rest[k] = "]"
                      /\ k + 1 <= Len(rest) /\ rest[k + 1] = " "
                      /\ AllDots(SubSeq(rest, 3, k - 1))
                      /\ AllDots(Drop(rest, k + 1))}
    IN  IF closers # {}
        THEN LET k == CHOOSE i \in closers : \A j \in closers : i <= j
             IN  [ok |-> TRUE, hours |-> hours, minutes |-> minutes,
                  source |-> SubSeq(rest, 3, k - 1), content |-> Drop(rest, k + 1)]
        ELSE IF Len(rest) >= 1 /\ rest[1] = " " /\ AllDots(Tail(rest))
        THEN [ok |-> TRUE, hours |-> hours, minutes |-> minutes,
              source |-> <<>>, content |-> Tail(rest)]
        ELSE NoTimeMatch

\* the timed pattern is not tried: every line goes on to the bullet pattern
timeRegex_never(line) == NoTimeMatch

timeRegex(line) ==
    IF ~startsWith(line, <<"-", " ">>) THEN NoTimeMatch
    ELSE LET s == Drop(line, 2)
             \* \d{1,2} is greedy: two hour digits are tried first
             two == /\ Len(s) >= 5
                    /\ IsDigit(s[1]) /\ IsDigit(s[2]) /\ s[3] = ":"
                    /\ IsDigit(s[4]) /\ IsDigit(s[5])
             one == /\ Len(s) >= 4
                    /\ IsDigit(s[1]) /\ s[2] = ":"
                    /\ IsDigit(s[3]) /\ IsDigit(s[4])
         IN  IF two
             THEN timeRegexTail(Drop(s, 5), DigitVal(s[1]) * 10 + DigitVal(s[2]),
                                DigitVal(s[4]) * 10 + DigitVal(s[5]))
             ELSE IF one
             THEN timeRegexTail(Drop(s, 4), DigitVal(s[1]),
                                DigitVal(s[3]) * 10 + DigitVal(s[4]))
             ELSE NoTimeMatch

\* /^[-*] (.*)$/
bulletRegex(line) ==
    IF /\ Len(line) >= 2
       /\ line[1] \in {"-", "*"}
       /\ line[2] = " "
       /\ AllDots(Drop(line, 2))
    THEN [ok |-> TRUE, content |-> Drop(line, 2)]
    ELSE [ok |-> FALSE, content |-> <<>>]

\* id `${date.getTime()}-${index}` kept as a tuple
parsedId(date, index) == <<"parsed", date, index>>

\* the body of lines.forEach((line, index) => ...): entries after this line
parseLine(line, index, date, entries) ==
    LET trimmed   == trim(line)
        timeMatch == timeRegex(line)
        bulletMatch == bulletRegex(line)
        midnight  == setHours(date, 0, 0)
    IN  IF Len(trimmed) = 0 THEN entries
        ELSE IF timeMatch.ok
        THEN Append(entries,
                    [id |-> parsedId(date, index),
                     timestamp |-> setHours(date, timeMatch.hours, timeMatch.minutes),
                     hasTime |-> TRUE,
                     source |-> IF Len(timeMatch.source) > 0 THEN timeMatch.source ELSE SrcUser,
                     content |-> trim(timeMatch.content),
                     isImportant |-> includes(timeMatch.content, Marker),
                     isSaved |-> TRUE])
        ELSE IF bulletMatch.ok
        THEN Append(entries,
                    [id |-> parsedId(date, index),
                     timestamp |-> midnight,
                     hasTime |-> FALSE,
                     source |-> SrcUser,
                     content |-> trim(bulletMatch.content),
                     isImportant |-> includes(bulletMatch.content, Marker),
                     isSaved |-> TRUE])
        ELSE IF Len(entries) > 0 /\ ~startsWith(line, <<"-">>) /\ ~startsWith(line, <<"*">>)
        THEN [entries EXCEPT ![Len(entries)].content = @ \o <<NL>> \o trimmed]
        ELSE Append(entries,
                    [id |-> parsedId(date, index),
                     timestamp |-> midnight,
                     hasTime |-> FALSE,
                     source |-> SrcUser,
                     content |-> trimmed,
                     isImportant |-> includes(trimmed, Marker),
                     isSaved |-> TRUE])

\* lines.forEach((line, index) => ...) over the lines lo..hi (indices from
\* 0), in order, starting from entries; the range is halved to keep the
\* evaluation shallow
RECURSIVE parseFrom(_, _, _, _, _)
parseFrom(lines, lo, hi, date, entries) ==
    IF lo > hi THEN entries
    ELSE IF lo = hi THEN parseLine(lines[lo + 1], lo, date, entries)
    ELSE LET mid == (lo + hi) \div 2
             done == parseFrom(lines, lo, mid, date, entries)
         IN  IF Len(done) = 0 THEN parseFrom(lines, mid + 1, hi, date, <<>>)
             ELSE parseFrom(lines, mid + 1, hi, date, done)

\* the first line is skipped
parseMarkdown_skipFirst(text, date) ==
    LET lines == split(text)
    IN  parseFrom(lines, 1, Len(lines) - 1, date, <<>>)

parseMarkdown(text, date) ==
    LET lines == split(text)
    IN  parseFrom(lines, 0, Len(lines) - 1, date, <<>>)

\* Array.prototype.sort((a, b) => a.timestamp.getTime() - b.timestamp.getTime()):
\* a stable sort, written as insertion
RECURSIVE insertByTime(_, _)
insertByTime(sorted, e) ==
    IF Len(sorted) = 0 THEN <<e>>
    ELSE IF TimeLess(e.timestamp, sorted[Len(sorted)].timestamp)
    THEN Append(insertByTime(Take(sorted, Len(sorted) - 1), e), sorted[Len(sorted)])
    ELSE Append(sorted, e)

RECURSIVE sortByTime(_)
sortByTime(entries) ==
    IF Len(entries) = 0 THEN <<>>
    ELSE insertByTime(sortByTime(Take(entries, Len(entries) - 1)), entries[Len(entries)])

MapFormat(entries) == [i \in 1..Len(entries) |-> formatEntry(entries[i])]

\* the text rewriteJournal writes: sorted, formatted, joined, trailing newline
rewriteText(entries) == join(MapFormat(sortByTime(entries))) \o <<NL>>

\* ------------------------------------------------------------------------
\* State
\* ------------------------------------------------------------------------

VARIABLES
    codec,          \* a codec run: entries -> day text -> entries -> day text
    dir,            \* the journal directory: file name -> text of the file
    now,            \* the wall clock (new Date(), Date.now())
    currentDate,    \* App state: the displayed day
    dailyEntries,   \* App state: the entries of the displayed day
    tasks,          \* the handler invocations in flight, one per slot
    hist,           \* history of the run: counters of invocations, faults, minutes
    search,         \* a searchJournalFiles call
    deletedEntries  \* App state: the deleted set (the trash)

vars == <<codec, dir, now, currentDate, dailyEntries, tasks, hist, search, deletedEntries>>

appVars == <<dir, now, currentDate, dailyEntries, tasks, hist, deletedEntries>>

\* ------------------------------------------------------------------------
\* Codec runs: serialize a list of entries, parse the text, serialize again
\* ------------------------------------------------------------------------

MaxEntries == 2

\* the day whose file is written and read (2024-01-05)
CodecDay == MkDate(DayNumber(2024, 0, 5), 0, 0, 0)

CodecContents ==
    { <<"a">>,
      <<" ", "a">>,
      <<"[", "x", "]", " ", "a">>,
      <<"a", " ">> \o Marker }

CodecTimes ==
    { MkDate(CodecDay.day, 8, 0, 0),
      MkDate(CodecDay.day, 9, 30, 0),
      MkDate(CodecDay.day + 1, 7, 0, 0) }

CodecEntries ==
    [ id : {<<"input">>},
      content : CodecContents,
      timestamp : CodecTimes,
      hasTime : BOOLEAN,
      source : {SrcUser, SrcChat},
      isImportant : BOOLEAN,
      isSaved : {TRUE} ]

CodecIdle ==
    [pc |-> "input", entries |-> <<>>, text |-> <<>>, parsed |-> <<>>, again |-> <<>>]

CodecInit ==
    /\ codec = CodecIdle
    /\ dir = <<>>
    /\ now = CodecDay
    /\ currentDate = CodecDay
    /\ dailyEntries = <<>>
    /\ tasks = <<>>
    /\ hist = <<>>
    /\ search = <<>>
    /\ deletedEntries = <<>>

CodecAddEntry(e) ==
    /\ codec.pc = "input"
    /\ Len(codec.entries) < MaxEntries
    /\ codec' = [codec EXCEPT !.entries = Append(@, e)]
    /\ UNCHANGED <<appVars, search>>

\* entries.sort(...).map(formatEntry).join('\n') + '\n'; sort works in place
CodecSerialize ==
    /\ codec.pc = "input"
    /\ codec' = [codec EXCEPT !.pc = "serialized",
                              !.entries = sortByTime(@),
                              !.text = rewriteText(codec.entries)]
    /\ UNCHANGED <<appVars, search>>

CodecParse ==
    /\ codec.pc = "serialized"
    /\ codec' = [codec EXCEPT !.pc = "parsed",
                              !.parsed = parseMarkdown(codec.text, CodecDay)]
    /\ UNCHANGED <<appVars, search>>

CodecReserialize ==
    /\ codec.pc = "parsed"
    /\ codec' = [codec EXCEPT !.pc = "done",
                              !.again = rewriteText(codec.parsed)]
    /\ UNCHANGED <<appVars, search>>

CodecNext ==
    \/ \E e \in CodecEntries : CodecAddEntry(e)
    \/ CodecSerialize
    \/ CodecParse
    \/ CodecReserialize

SpecCodec == CodecInit /\ [][CodecNext]_vars

\* --- formatEntry on one entry ---

FormatContents ==
    { <<"a">>,
      <<"a", " ">> \o Marker,
      Marker \o <<" ">> \o Marker }

FormatEntries ==
    [ id : {<<"input">>},
      content : FormatContents,
      timestamp : CodecTimes,
      hasTime : BOOLEAN,
      source : {<<>>, SrcUser, SrcChat, Marker},
      isImportant : BOOLEAN,
      isSaved : {TRUE} ]

FormatInit ==
    /\ codec \in [pc : {"entry"}, entry : FormatEntries, line : {<<>>}]
    /\ dir = <<>>
    /\ now = CodecDay
    /\ currentDate = CodecDay
    /\ dailyEntries = <<>>
    /\ tasks = <<>>
    /\ hist = <<>>
    /\ search = <<>>
    /\ deletedEntries = <<>>

FormatLine ==
    /\ codec.pc = "entry"
    /\ codec' = [codec EXCEPT !.pc = "line", !.line = formatEntry(codec.entry)]
    /\ UNCHANGED <<appVars, search>>

SpecFormat == FormatInit /\ [][FormatLine]_vars

\* --- parseMarkdown on one text ---

MaxLines == 3

\* the lines a day file may hold: blank lines, timed lines (with one or two
\* hour digits, with and without a source, with an hour or a minute out of
\* range), a bullet with a malformed time, plain bullets, plain text, plain text
\* with outer blanks, and a dash that is not a bullet
ParseLines ==
    { <<>>,
      <<" ">>,
      <<"-", " ", "0", "8", ":", "0", "0", " ", "a">>,
      <<"-", " ", "8", ":", "0", "5", " ", "[", "c", "h", "a", "t", "]", " ", "a">>,
      <<"-", " ", "9", ":", "0", " ", "a">>,
      <<"-", " ", "2", "4", ":", "0", "0", " ", "a">>,
      <<"-", " ", "9", ":", "7", "5", " ", "a">>,
      <<"*", " ", "b">>,
      <<"b">>,
      <<" ", "c", " ">>,
      <<"-", "c">> }

\* the texts of at most MaxLines lines
ParseLineLists == UNION {[1..n -> ParseLines] : n \in 0..MaxLines}

ParseTexts == {join(ls) : ls \in ParseLineLists}

\* the Date values that stand for the day read: midnight (a day picked in
\* the calendar) and the time of a new Date()
ParseDates == {CodecDay, MkDate(CodecDay.day, 8, 30, 0), MkDate(CodecDay.day, 8, 31, 0)}

ParseInit ==
    /\ codec \in [pc : {"text"}, text : ParseTexts, date : ParseDates,
                   parsed : {<<>>}, again : {<<>>}]
    /\ dir = <<>>
    /\ now = CodecDay
    /\ currentDate = CodecDay
    /\ dailyEntries = <<>>
    /\ tasks = <<>>
    /\ hist = <<>>
    /\ search = <<>>
    /\ deletedEntries = <<>>

\* readDailyJournal: parseMarkdown(text, date)
ParseText ==
    /\ codec.pc = "text"
    /\ codec' = [codec EXCEPT !.pc = "parsed",
                              !.parsed = parseMarkdown(codec.text, codec.date)]
    /\ UNCHANGED <<appVars, search>>

\* the same text read again for the same day, the day given by date
ParseAgain(date) ==
    /\ codec.pc = "parsed"
    /\ date.day = codec.date.day
    /\ codec' = [codec EXCEPT !.pc = "done", !.date = date,
                              !.again = parseMarkdown(codec.text, date)]
    /\ UNCHANGED <<appVars, search>>

ParseNext ==
    \/ ParseText
    \/ \E date \in ParseDates : ParseAgain(date)

SpecParse == ParseInit /\ [][ParseNext]_vars

\* ------------------------------------------------------------------------
\* The journal store driven by the handlers of App
\* ------------------------------------------------------------------------

MaxProcs == 2

MaxOps == 2

MaxFaults == 1

MaxTicks == 1

Procs == 1..MaxProcs

\* the clock at start: 2024-01-05 08:30
StartTime == MkDate(DayNumber(2024, 0, 5), 8, 30, 0)

\* addDays(new Date(), -daysAgo)
addDays(date, n) == [date EXCEPT !.day = @ + n]

DisplayDays == {0, 1}

AppContents == { <<"b">> }

\* what the day files may hold when the folder is connected
TodayTexts ==
    { <<"-", " ", "0", "8", ":", "0", "0", " ", "a", NL>>,
      <<"-", " ", "0", "8", ":", "0", "0", " ", "a">> }

OtherTexts == { <<"-", " ", "0", "7", ":", "0", "0", " ", "b", NL>> }

FileOf(text) == [kind |-> "file", text |-> text]

\* the directory after writing text to the file called name
put(d, name, text) ==
    [n \in DOMAIN d \cup {name} |-> IF n = name THEN FileOf(text) ELSE d[n]]

textOf(d, name) == IF name \in DOMAIN d THEN d[name].text ELSE <<>>

NoEntry ==
    [id |-> <<>>, content |-> <<>>, timestamp |-> StartTime, hasTime |-> TRUE,
     source |-> SrcUser, isImportant |-> FALSE, isSaved |-> FALSE]

Idle ==
    [handler |-> "none", op |-> "none", pc |-> "idle", date |-> StartTime,
     entry |-> NoEntry, entries |-> <<>>, aliased |-> FALSE,
     currentContent |-> <<>>, readOk |-> FALSE, old |-> <<>>,
     result |-> "none", value |-> <<>>, committed |-> FALSE, key |-> <<>>]

\* a slot whose call has settled keeps the record of that call until reused
InFlight(p) == tasks[p].pc \notin {"idle", "returned"}

\* a new invocation takes the first free slot
Free(p) == ~InFlight(p) /\ \A q \in 1..(p - 1) : InFlight(q)

\* every setDailyEntries installs a new array: arrays held by calls in flight
\* are no longer the state array
Unalias(ts) == [q \in Procs |-> [ts[q] EXCEPT !.aliased = FALSE]]

AppInit ==
    /\ codec = CodecIdle
    /\ search = <<>>
    /\ deletedEntries = <<>>
    /\ now = StartTime
    /\ currentDate = StartTime
    /\ dailyEntries = <<>>
    /\ tasks = [p \in Procs |-> Idle]
    /\ hist = [ops |-> 0, faults |-> 0, ticks |-> 0, serial |-> TRUE]
    /\ \E today \in TodayTexts \cup {<<"absent">>}, other \in OtherTexts :
         LET d1 == put(<<>>, getFileName(addDays(StartTime, -1)), other)
         IN  dir = IF today = <<"absent">> THEN d1 ELSE put(d1, getFileName(StartTime), today)

\* the minutes that may have passed since the clock was last read
Elapsed == {dt \in 0..1 : hist.ticks + dt <= MaxTicks}

\* new Date() after dt more minutes
clockAfter(dt) == [now EXCEPT !.ms = @ + dt * MsPerMinute]

\* a handler starts: counted, and the run stays serial only if no other
\* call is in flight
Started(dt) == [hist EXCEPT !.ops = @ + 1, !.ticks = @ + dt,
                            !.serial = @ /\ \A q \in Procs : ~InFlight(q)]

\* the outcome of an I/O call: failures are counted
CanFail(ok) == ok \/ hist.faults < MaxFaults

Faulted(h, ok) == IF ok THEN h ELSE [h EXCEPT !.faults = @ + 1]

\* --- loadData effect: readDailyJournal(fsHandle, currentDate) ---

\* onDateChange(addDays(new Date(), -daysAgo)) and the effect it triggers
SelectDate(p, daysAgo, dt) ==
    /\ Free(p)
    /\ hist.ops < MaxOps
    /\ now' = clockAfter(dt)
    /\ currentDate' = addDays(now', -daysAgo)
    /\ tasks' = [tasks EXCEPT ![p] =
                    [Idle EXCEPT !.handler = "load", !.op = "read", !.pc = "open",
                                 !.date = addDays(now', -daysAgo)]]
    /\ hist' = Started(dt)
    /\ UNCHANGED <<codec, search, deletedEntries, dir, dailyEntries>>

\* the catch dropped: a failed read rejects
readResult_throws(ok, text, date) ==
    IF ok THEN [result |-> "ok", value |-> parseMarkdown(text, date)]
    ELSE [result |-> "rejected", value |-> <<>>]

\* what readDailyJournal returns once the read succeeded (ok) or threw
readResult(ok, text, date) ==
    IF ok THEN [result |-> "ok", value |-> parseMarkdown(text, date)]
    ELSE [result |-> "ok", value |-> <<>>]

\* loadData after await readDailyJournal: setDailyEntries(entries); a
\* rejection would leave the state as it is
loadResume(r) == IF r.result = "ok" THEN r.value ELSE dailyEntries

\* handle.getFileHandle(fileName, { create: false }); when it throws the
\* catch returns [] and loadData resumes in the same turn
ReadOpen(p, ok) ==
    /\ tasks[p].op = "read" /\ tasks[p].pc = "open"
    /\ CanFail(ok)
    /\ LET name == getFileName(tasks[p].date)
           found == ok /\ name \in DOMAIN dir
           r == readResult(FALSE, <<>>, tasks[p].date)
       IN  /\ tasks' = IF found THEN [tasks EXCEPT ![p].pc = "read"]
                       ELSE [Unalias(tasks) EXCEPT
                                ![p] = [tasks[p] EXCEPT !.pc = "returned", !.result = r.result,
                                           !.value = r.value, !.old = textOf(dir, name)]]
           /\ dailyEntries' = IF found THEN dailyEntries ELSE loadResume(r)
    /\ hist' = Faulted(hist, ok)
    /\ UNCHANGED <<codec, search, deletedEntries, dir, now, currentDate>>

\* fileHandle.getFile() and file.text(), then parseMarkdown; loadData
\* resumes in the same turn
ReadText(p, ok) ==
    /\ tasks[p].op = "read" /\ tasks[p].pc = "read"
    /\ CanFail(ok)
    /\ LET name == getFileName(tasks[p].date)
           r == readResult(ok, textOf(dir, name), tasks[p].date)
       IN  /\ tasks' = [Unalias(tasks) EXCEPT
                          ![p] = [tasks[p] EXCEPT !.pc = "returned", !.result = r.result,
                                     !.value = r.value, !.readOk = ok,
                                     !.old = textOf(dir, name)]]
           /\ dailyEntries' = loadResume(r)
    /\ hist' = Faulted(hist, ok)
    /\ UNCHANGED <<codec, search, deletedEntries, dir, now, currentDate>>

\* --- handleAddEntry: appendToJournal(fsHandle, currentDate, newEntry) ---

HandleAddEntry(p, content, dt) ==
    /\ Free(p)
    /\ hist.ops < MaxOps
    /\ now' = clockAfter(dt)
    /\ LET newEntry == [id |-> <<"now", now'>>, content |-> content, timestamp |-> now',
                        hasTime |-> TRUE, source |-> SrcChat,
                        isImportant |-> FALSE, isSaved |-> FALSE]
       IN  /\ dailyEntries' = Append(dailyEntries, newEntry)
           /\ tasks' = [Unalias(tasks) EXCEPT ![p] =
                           [Idle EXCEPT !.handler = "add", !.op = "append", !.pc = "open",
                                        !.date = currentDate, !.entry = newEntry]]
    /\ hist' = Started(dt)
    /\ UNCHANGED <<codec, search, deletedEntries, dir, currentDate>>

\* handle.getFileHandle(fileName, { create: true }) of appendToJournal and
\* rewriteJournal; rewriteJournal then sorts its argument in place
WriteOpen(p, ok) ==
    /\ tasks[p].op \in {"append", "rewrite"} /\ tasks[p].pc = "open"
    /\ CanFail(ok)
    /\ LET name == getFileName(tasks[p].date)
           sorted == sortByTime(tasks[p].entries)
       IN  /\ dir' = IF ok /\ name \notin DOMAIN dir THEN put(dir, name, <<>>) ELSE dir
           /\ tasks' = [tasks EXCEPT ![p] =
                           IF ~ok THEN [@ EXCEPT !.pc = "returned", !.result = "rejected"]
                           ELSE IF @.op = "append" THEN [@ EXCEPT !.pc = "read"]
                           ELSE [@ EXCEPT !.pc = "write", !.entries = sorted]]
           /\ dailyEntries' = IF ok /\ tasks[p].op = "rewrite" /\ tasks[p].aliased
                              THEN sorted ELSE dailyEntries
    /\ hist' = Faulted(hist, ok)
    /\ UNCHANGED <<codec, search, deletedEntries, now, currentDate>>

\* try { file = await fileHandle.getFile(); currentContent = await file.text() } catch {}
AppendRead(p, ok) ==
    /\ tasks[p].op = "append" /\ tasks[p].pc = "read"
    /\ CanFail(ok)
    /\ LET text == textOf(dir, getFileName(tasks[p].date))
       IN  tasks' = [tasks EXCEPT ![p] =
                        [@ EXCEPT !.pc = "write", !.readOk = ok, !.old = text,
                                  !.currentContent = IF ok THEN text ELSE <<>>]]
    /\ hist' = Faulted(hist, ok)
    /\ UNCHANGED <<codec, search, deletedEntries, dir, now, currentDate, dailyEntries>>

\* the separator guard dropped: a newline is always put before the new block
appendNewContent_noGuard(currentContent, entry) ==
    currentContent \o <<NL>> \o formatEntry(entry) \o <<NL>>

\* currentContent + separator + entryText + '\n'
appendNewContent(currentContent, entry) ==
    LET entryText == formatEntry(entry)
        separator == IF Len(currentContent) > 0 /\ ~endsWith(currentContent, <<NL>>)
                     THEN <<NL>> ELSE <<>>
    IN  currentContent \o separator \o entryText \o <<NL>>

\* the new block added to the text on disk at the time of the write
appendBase_fresh(p) == textOf(dir, getFileName(tasks[p].date))

\* the text the new block of an append is added to
appendBase(p) == tasks[p].currentContent

\* the text a store call writes
writeText(p) ==
    IF tasks[p].op = "append"
    THEN appendNewContent(appendBase(p), tasks[p].entry)
    ELSE join(MapFormat(tasks[p].entries)) \o <<NL>>

\* handleAddEntry after await appendToJournal:
\* setDailyEntries(prev => prev.map(e => e.id === newEntry.id ? {...e, isSaved: true} : e))
markSaved(id) ==
    [i \in 1..Len(dailyEntries) |->
        IF dailyEntries[i].id = id
        THEN [dailyEntries[i] EXCEPT !.isSaved = TRUE]
        ELSE dailyEntries[i]]

\* the catch of handleAddEntry and handleSaveEntry removed: the entry is marked
\* saved whether or not the append resolved
savedAfter_always(ok, handler) == handler \in {"add", "save"}

\* setDailyEntries(... isSaved: true ...) follows await appendToJournal inside
\* the try block of handleAddEntry and handleSaveEntry: it runs only when the
\* append resolved
savedAfter(ok, handler) == ok /\ handler \in {"add", "save"}

\* handleRestoreEntry after await appendToJournal:
\* setDeletedEntries(prev => prev.filter(e => e.id !== entry.id))
dropDeleted(id) == SelectSeq(deletedEntries, LAMBDA e : e.id # id)

\* createWritable(), write(), close(): the file is replaced when close()
\* succeeds and is left as it was when any of the three fails.  The handler
\* resumes in the same turn: handleAddEntry and handleSaveEntry mark their
\* entry saved on success and only report in their catch on failure;
\* handleRestoreEntry takes the entry out of the deleted set on success and
\* has no catch; the rewriting handlers have nothing left to do
StoreWrite(p, ok) ==
    /\ tasks[p].op \in {"append", "rewrite"} /\ tasks[p].pc = "write"
    /\ CanFail(ok)
    /\ LET name == getFileName(tasks[p].date)
       IN  /\ dir' = IF ok THEN put(dir, name, writeText(p)) ELSE dir
           /\ hist' = Faulted(hist, ok)
    /\ LET saved == savedAfter(ok, tasks[p].handler)
       IN  /\ tasks' = [(IF saved THEN Unalias(tasks) ELSE tasks) EXCEPT
                          ![p] = [tasks[p] EXCEPT !.pc = "returned", !.committed = ok,
                                     !.result = IF ok THEN "ok" ELSE "rejected"]]
           /\ dailyEntries' = IF saved THEN markSaved(tasks[p].entry.id) ELSE dailyEntries
    /\ deletedEntries' = IF ok /\ tasks[p].handler = "restore"
                         THEN dropDeleted(tasks[p].entry.id) ELSE deletedEntries
    /\ UNCHANGED <<codec, search, now, currentDate>>

\* --- handleEditEntry: rewriteJournal(fsHandle, currentDate, newEntries) ---

HandleEditEntry(p, i, newContent) ==
    /\ Free(p)
    /\ hist.ops < MaxOps
    /\ i \in 1..Len(dailyEntries)
    /\ LET id == dailyEntries[i].id
           newEntries == [k \in 1..Len(dailyEntries) |->
                            IF dailyEntries[k].id = id
                            THEN [dailyEntries[k] EXCEPT !.content = newContent]
                            ELSE dailyEntries[k]]
       IN  /\ dailyEntries' = newEntries
           /\ tasks' = [Unalias(tasks) EXCEPT ![p] =
                           [Idle EXCEPT !.handler = "edit", !.op = "rewrite", !.pc = "open",
                                        !.date = currentDate, !.entries = newEntries,
                                        !.aliased = TRUE]]
    /\ hist' = Started(0)
    /\ UNCHANGED <<codec, search, deletedEntries, dir, now, currentDate>>

\* --- handleSaveEntry, handleUnsaveEntry ---

\* dailyEntries.find(e => e.id === id)
findById(entries, id) ==
    entries[CHOOSE k \in 1..Len(entries) :
                /\ entries[k].id = id
                /\ \A j \in 1..(k - 1) : entries[j].id # id]

\* the save control is shown for an entry that is not saved
HandleSaveEntry(p, i) ==
    /\ Free(p)
    /\ hist.ops < MaxOps
    /\ i \in 1..Len(dailyEntries)
    /\ ~dailyEntries[i].isSaved
    /\ LET entryToSave == findById(dailyEntries, dailyEntries[i].id)
       IN  tasks' = [tasks EXCEPT ![p] =
                        [Idle EXCEPT !.handler = "save", !.op = "append", !.pc = "open",
                                     !.date = currentDate, !.entry = entryToSave]]
    /\ hist' = Started(0)
    /\ UNCHANGED <<codec, search, deletedEntries, dir, now, currentDate, dailyEntries>>

\* the unsave control is shown for a saved entry;
\* setDailyEntries(prev => prev.map(e => e.id === id ? {...e, isSaved: false} : e))
HandleUnsaveEntry(i) ==
    /\ hist.ops < MaxOps
    /\ i \in 1..Len(dailyEntries)
    /\ dailyEntries[i].isSaved
    /\ LET id == dailyEntries[i].id
       IN  dailyEntries' = [k \in 1..Len(dailyEntries) |->
                               IF dailyEntries[k].id = id
                               THEN [dailyEntries[k] EXCEPT !.isSaved = FALSE]
                               ELSE dailyEntries[k]]
    /\ tasks' = Unalias(tasks)
    /\ hist' = [hist EXCEPT !.ops = @ + 1]
    /\ UNCHANGED <<codec, search, deletedEntries, dir, now, currentDate>>

\* --- handleDeleteEntry: rewriteJournal(fsHandle, currentDate, newEntries) ---

\* { ...entryToDelete, deletedAt: new Date(), originalDateKey: format(currentDate, 'yyyy-MM-dd') }
deletedOf(e, at, date) ==
    [id |-> e.id, content |-> e.content, timestamp |-> e.timestamp,
     hasTime |-> e.hasTime, source |-> e.source, isImportant |-> e.isImportant,
     isSaved |-> e.isSaved, deletedAt |-> at, originalDateKey |-> formatISO(date)]

\* dailyEntries.filter(e => e.id !== id)
withoutId(entries, id) == SelectSeq(entries, LAMBDA e : e.id # id)

HandleDeleteEntry(p, i) ==
    /\ Free(p)
    /\ hist.ops < MaxOps
    /\ i \in 1..Len(dailyEntries)
    /\ LET id == dailyEntries[i].id
           entryToDelete == findById(dailyEntries, id)
           newEntries == withoutId(dailyEntries, id)
       IN  /\ deletedEntries' = Append(deletedEntries, deletedOf(entryToDelete, now, currentDate))
           /\ dailyEntries' = newEntries
           /\ tasks' = [Unalias(tasks) EXCEPT ![p] =
                           [Idle EXCEPT !.handler = "delete", !.op = "rewrite", !.pc = "open",
                                        !.date = currentDate, !.entries = newEntries,
                                        !.entry = entryToDelete, !.aliased = TRUE]]
    /\ hist' = Started(0)
    /\ UNCHANGED <<codec, search, dir, now, currentDate>>

\* --- handleToggleImportant: rewriteJournal(fsHandle, currentDate, newEntries) ---

HandleToggleImportant(p, i) ==
    /\ Free(p)
    /\ hist.ops < MaxOps
    /\ i \in 1..Len(dailyEntries)
    /\ LET id == dailyEntries[i].id
           newEntries == [k \in 1..Len(dailyEntries) |->
                            IF dailyEntries[k].id = id
                            THEN [dailyEntries[k] EXCEPT !.isImportant = ~@]
                            ELSE dailyEntries[k]]
       IN  /\ dailyEntries' = newEntries
           /\ tasks' = [Unalias(tasks) EXCEPT ![p] =
                           [Idle EXCEPT !.handler = "toggle", !.op = "rewrite", !.pc = "open",
                                        !.date = currentDate, !.entries = newEntries,
                                        !.aliased = TRUE]]
    /\ hist' = Started(0)
    /\ UNCHANGED <<codec, search, deletedEntries, dir, now, currentDate>>

\* --- handleRestoreEntry: appendToJournal(fsHandle, currentDate, restoredEntry) ---

\* const { deletedAt, originalDateKey, ...rest } = entry
restOf(entry) ==
    [id |-> entry.id, content |-> entry.content, timestamp |-> entry.timestamp,
     hasTime |-> entry.hasTime, source |-> entry.source,
     isImportant |-> entry.isImportant, isSaved |-> entry.isSaved]

\* the test of the displayed day dropped: the entry is restored into whichever
\* day is displayed
restoreHere_always(entry) == TRUE

\* originalDateKey === format(currentDate, 'yyyy-MM-dd')
restoreHere(entry) == entry.originalDateKey = formatISO(currentDate)

\* when another day is displayed the handler alerts and returns, leaving the
\* deleted set as it is
HandleRestoreEntry(p, k) ==
    /\ Free(p)
    /\ hist.ops < MaxOps
    /\ k \in 1..Len(deletedEntries)
    /\ LET entry == deletedEntries[k]
           restoredEntry == restOf(entry)
       IN  IF restoreHere(entry)
           THEN /\ dailyEntries' = sortByTime(Append(dailyEntries, restoredEntry))
                /\ tasks' = [Unalias(tasks) EXCEPT ![p] =
                                [Idle EXCEPT !.handler = "restore", !.op = "append",
                                             !.pc = "open", !.date = currentDate,
                                             !.entry = restoredEntry,
                                             !.key = entry.originalDateKey]]
           ELSE /\ dailyEntries' = dailyEntries
                /\ tasks' = [tasks EXCEPT ![p] =
                                [Idle EXCEPT !.handler = "restore", !.pc = "returned",
                                             !.result = "alerted", !.date = currentDate,
                                             !.entry = restoredEntry,
                                             !.key = entry.originalDateKey]]
    /\ hist' = Started(0)
    /\ UNCHANGED <<codec, search, deletedEntries, dir, now, currentDate>>

\* --- onPermanentDelete: setDeletedEntries(p => p.filter(e => e.id !== id)) ---

PermanentDelete(k) ==
    /\ hist.ops < MaxOps
    /\ k \in 1..Len(deletedEntries)
    /\ deletedEntries' = dropDeleted(deletedEntries[k].id)
    /\ hist' = [hist EXCEPT !.ops = @ + 1]
    /\ UNCHANGED <<codec, search, dir, now, currentDate, dailyEntries, tasks>>

Next ==
    \/ \E p \in Procs, d \in DisplayDays, dt \in Elapsed : SelectDate(p, d, dt)
    \/ \E p \in Procs, ok \in BOOLEAN : ReadOpen(p, ok)
    \/ \E p \in Procs, ok \in BOOLEAN : ReadText(p, ok)
    \/ \E p \in Procs, c \in AppContents, dt \in Elapsed : HandleAddEntry(p, c, dt)
    \/ \E p \in Procs, ok \in BOOLEAN : WriteOpen(p, ok)
    \/ \E p \in Procs, ok \in BOOLEAN : AppendRead(p, ok)
    \/ \E p \in Procs, ok \in BOOLEAN : StoreWrite(p, ok)
    \/ \E p \in Procs, i \in 1..MaxOps, c \in AppContents : HandleEditEntry(p, i, c)

Spec == AppInit /\ [][Next]_vars

\* --- a session with the trash: every handler of the day view ---

\* today's file and yesterday's file when the session is observed
DayTodayText == <<"-", " ", "0", "8", ":", "0", "0", " ", "a", NL>>

DayOtherText ==
    <<"-", " ", "0", "7", ":", "0", "0", " ", "b", NL,
      "-", " ", "0", "9", ":", "0", "0", " ", "c", NL>>

Yesterday == addDays(StartTime, -1)

DayDir(other) ==
    put(put(<<>>, getFileName(StartTime), DayTodayText), getFileName(Yesterday), other)

\* the list after handleDeleteEntry of the first entry of yesterday
DayOtherRest == withoutId(parseMarkdown(DayOtherText, Yesterday), parsedId(Yesterday, 0))

\* yesterday's file after the rewrite of that delete
DayOtherRewritten == join(MapFormat(sortByTime(DayOtherRest))) \o <<NL>>

\* the deleted set after that delete
DayTrash ==
    << deletedOf(findById(parseMarkdown(DayOtherText, Yesterday), parsedId(Yesterday, 0)),
                 StartTime, Yesterday) >>

\* The session is observed with no call in flight, in one of four states:
\* today displayed and loaded; yesterday displayed and loaded; today
\* displayed after the first entry of yesterday was deleted; yesterday
\* displayed again (and loaded again) after that delete
DayInit ==
    /\ codec = CodecIdle
    /\ search = <<>>
    /\ now = StartTime
    /\ tasks = [p \in Procs |-> Idle]
    /\ hist = [ops |-> 0, faults |-> 0, ticks |-> 0, serial |-> TRUE]
    /\ \/ /\ dir = DayDir(DayOtherText)
          /\ deletedEntries = <<>>
          /\ \E date \in {StartTime, Yesterday} :
                /\ currentDate = date
                /\ dailyEntries = parseMarkdown(textOf(dir, getFileName(date)), date)
       \/ /\ dir = DayDir(DayOtherRewritten)
          /\ deletedEntries = DayTrash
          /\ \E date \in {StartTime, Yesterday} :
                /\ currentDate = date
                /\ dailyEntries = parseMarkdown(textOf(dir, getFileName(date)), date)

DayNext ==
    \/ \E p \in Procs, d \in DisplayDays, dt \in Elapsed : SelectDate(p, d, dt)
    \/ \E p \in Procs, ok \in BOOLEAN : ReadOpen(p, ok)
    \/ \E p \in Procs, ok \in BOOLEAN : ReadText(p, ok)
    \/ \E p \in Procs, c \in AppContents, dt \in Elapsed : HandleAddEntry(p, c, dt)
    \/ \E p \in Procs, ok \in BOOLEAN : WriteOpen(p, ok)
    \/ \E p \in Procs, ok \in BOOLEAN : AppendRead(p, ok)
    \/ \E p \in Procs, ok \in BOOLEAN : StoreWrite(p, ok)
    \/ \E p \in Procs, i \in 1..(MaxOps + 2), c \in AppContents : HandleEditEntry(p, i, c)
    \/ \E p \in Procs, i \in 1..(MaxOps + 2) : HandleSaveEntry(p, i)
    \/ \E i \in 1..(MaxOps + 2) : HandleUnsaveEntry(i)
    \/ \E p \in Procs, i \in 1..(MaxOps + 2) : HandleDeleteEntry(p, i)
    \/ \E p \in Procs, i \in 1..(MaxOps + 2) : HandleToggleImportant(p, i)
    \/ \E p \in Procs, k \in 1..(MaxOps + 1) : HandleRestoreEntry(p, k)
    \/ \E k \in 1..(MaxOps + 1) : PermanentDelete(k)

SpecDay == DayInit /\ [][DayNext]_vars

\* --- the calls that write: add, save, unsave, edit, toggle important ---

\* today displayed and loaded, the trash empty
SaveInit == DayInit /\ currentDate = StartTime /\ deletedEntries = <<>>

SaveNext ==
    \/ \E p \in Procs, c \in AppContents, dt \in Elapsed : HandleAddEntry(p, c, dt)
    \/ \E p \in Procs, i \in 1..(MaxOps + 2) : HandleSaveEntry(p, i)
    \/ \E i \in 1..(MaxOps + 2) : HandleUnsaveEntry(i)
    \/ \E p \in Procs, i \in 1..(MaxOps + 2), c \in AppContents : HandleEditEntry(p, i, c)
    \/ \E p \in Procs, i \in 1..(MaxOps + 2) : HandleToggleImportant(p, i)
    \/ \E p \in Procs, ok \in BOOLEAN : WriteOpen(p, ok)
    \/ \E p \in Procs, ok \in BOOLEAN : AppendRead(p, ok)
    \/ \E p \in Procs, ok \in BOOLEAN : StoreWrite(p, ok)

SpecSave == SaveInit /\ [][SaveNext]_vars

\* --- add, save and unsave alone ---

KeepNext ==
    \/ \E p \in Procs, c \in AppContents, dt \in Elapsed : HandleAddEntry(p, c, dt)
    \/ \E p \in Procs, i \in 1..(MaxOps + 2) : HandleSaveEntry(p, i)
    \/ \E i \in 1..(MaxOps + 2) : HandleUnsaveEntry(i)
    \/ \E p \in Procs, ok \in BOOLEAN : WriteOpen(p, ok)
    \/ \E p \in Procs, ok \in BOOLEAN : AppendRead(p, ok)
    \/ \E p \in Procs, ok \in BOOLEAN : StoreWrite(p, ok)

SpecKeep == SaveInit /\ [][KeepNext]_vars

\* --- the calls of the trash: delete, restore, and the loads between them ---

TrashNext ==
    \/ \E p \in Procs, d \in DisplayDays : SelectDate(p, d, 0)
    \/ \E p \in Procs, ok \in BOOLEAN : ReadOpen(p, ok)
    \/ \E p \in Procs, ok \in BOOLEAN : ReadText(p, ok)
    \/ \E p \in Procs, i \in 1..(MaxOps + 2) : HandleDeleteEntry(p, i)
    \/ \E p \in Procs, k \in 1..(MaxOps + 1) : HandleRestoreEntry(p, k)
    \/ \E k \in 1..(MaxOps + 1) : PermanentDelete(k)
    \/ \E p \in Procs, ok \in BOOLEAN : WriteOpen(p, ok)
    \/ \E p \in Procs, ok \in BOOLEAN : AppendRead(p, ok)
    \/ \E p \in Procs, ok \in BOOLEAN : StoreWrite(p, ok)

SpecTrash == DayInit /\ [][TrashNext]_vars

\* ------------------------------------------------------------------------
\* searchJournalFiles
\* ------------------------------------------------------------------------

limit == 50

MaxKeywords == 4

\* the keywords a query draws from: one in two casings, one inside another
KeywordPool == << <<"a">>, <<"A">>, <<"b">>, <<"b", "c">> >>

\* the keywords of the pool at the positions picked, in the pool's order
pickKeywords(picked) ==
    LET before == [i \in picked |-> Cardinality({j \in picked : j < i})]
    IN  [k \in 1..Cardinality(picked) |->
            KeywordPool[CHOOSE i \in picked : before[i] = k - 1]]

KeywordLists ==
    {pickKeywords(picked) : picked \in
        {q \in SUBSET (1..Len(KeywordPool)) : q # {} /\ Cardinality(q) <= MaxKeywords}}

\* name.match(/^\d{6}\.md$/)
isDatedName(name) ==
    /\ Len(name) = 9
    /\ \A i \in 1..6 : IsDigit(name[i])
    /\ Drop(name, 6) = <<".", "m", "d">>

\* parseInt of a two-digit substring
parseInt2(s) == DigitVal(s[1]) * 10 + DigitVal(s[2])

\* new Date(2000 + YY, MM - 1, DD) from the file name
dateOfName(name) ==
    [day |-> DayNumber(2000 + parseInt2(SubSeq(name, 1, 2)),
                       parseInt2(SubSeq(name, 3, 4)) - 1,
                       parseInt2(SubSeq(name, 5, 6))),
     ms  |-> 0]

\* only the first keyword is tested
filterMatched_first(keywordSet, lowerContent) ==
    IF Len(keywordSet) > 0 /\ includes(lowerContent, Head(keywordSet))
    THEN <<Head(keywordSet)>> ELSE <<>>

\* keywordSet.filter(k => lowerContent.includes(k))
RECURSIVE filterMatched(_, _)
filterMatched(keywordSet, lowerContent) ==
    IF Len(keywordSet) = 0 THEN <<>>
    ELSE LET rest == filterMatched(Tail(keywordSet), lowerContent)
         IN  IF includes(lowerContent, Head(keywordSet))
             THEN <<Head(keywordSet)>> \o rest
             ELSE rest

\* matchedKeywords.sort((a, b) => b.length - a.length)[0]: the sort is
\* stable, so the first of the longest matched keywords
primaryKeyword(matched) ==
    LET longest == {i \in 1..Len(matched) : \A j \in 1..Len(matched) :
                        Len(matched[j]) <= Len(matched[i])}
    IN  matched[CHOOSE i \in longest : \A j \in longest : i <= j]

snippetOf(content) ==
    IF Len(content) > 150 THEN Take(content, 150) \o <<".", ".", ".">> ELSE content

\* the RecallItem pushed for a matching entry (title, the formatted date
\* 'MMM do, yyyy', is left out)
recallItem(name, dateObj, journalEntry, matched) ==
    [id |-> <<name, journalEntry.id>>,
     snippet |-> snippetOf(journalEntry.content),
     fullContent |-> journalEntry.content,
     date |-> formatISO(dateObj),
     type |-> "journal",
     keyword |-> primaryKeyword(matched),
     relevanceScore |-> Len(matched)]

\* for (const journalEntry of parsedEntries) { ... results.push(...) }:
\* the results followed by an item for every entry that matches, in order
pushMatches(results, name, dateObj, parsedEntries, keywordSet) ==
    LET matched == [i \in 1..Len(parsedEntries) |->
                       filterMatched(keywordSet, toLowerCase(parsedEntries[i].content))]
        hits == {i \in 1..Len(parsedEntries) : Len(matched[i]) > 0}
        before == [i \in hits |-> Cardinality({j \in hits : j < i})]
        nth(k) == CHOOSE i \in hits : before[i] = k - 1
    IN  results \o [k \in 1..Cardinality(hits) |->
                      recallItem(name, dateObj, parsedEntries[nth(k)], matched[nth(k)])]

\* position of a character in the order localeCompare gives date strings
charRank(c) == IF IsDigit(c) THEN DigitVal(c) + 1 ELSE 0

\* a.localeCompare(b) < 0 on strings of digits and '-'
RECURSIVE strLess(_, _)
strLess(a, b) ==
    IF a = b \/ Len(b) = 0 THEN FALSE
    ELSE IF Len(a) = 0 THEN TRUE
    ELSE IF charRank(a[1]) # charRank(b[1]) THEN charRank(a[1]) < charRank(b[1])
    ELSE strLess(Tail(a), Tail(b))

\* the comparator of the final sort is negative: a goes before b
resultBefore(a, b) ==
    IF b.relevanceScore # a.relevanceScore
    THEN b.relevanceScore < a.relevanceScore
    ELSE strLess(b.date, a.date)

\* results.sort(comparator): the sort is stable, so an item comes after the
\* items the comparator puts before it and after the earlier items it ties with
sortResults(results) ==
    LET n == Len(results)
        ahead == [i \in 1..n |->
                    Cardinality({j \in 1..n : \/ resultBefore(results[j], results[i])
                                              \/ /\ ~resultBefore(results[i], results[j])
                                                 /\ j < i})]
        at(k) == CHOOSE i \in 1..n : ahead[i] = k - 1
    IN  [k \in 1..n |-> results[at(k)]]

\* the directory of the search runs
NameD1 == <<"2", "4", "0", "1", "0", "3", ".", "m", "d">>

NameD2 == <<"2", "4", "0", "1", "0", "4", ".", "m", "d">>

NameD3 == getFileName(StartTime)

NameNotes == <<"n", "o", "t", "e", "s", ".", "m", "d">>

NameSubdir == <<"2", "3", "1", "2", "3", "1", ".", "m", "d">>

repeatText(text, n) == [i \in 1..(n * Len(text)) |-> text[((i - 1) % Len(text)) + 1]]

TextOne == <<"-", " ", "0", "8", ":", "0", "0", " ", "a", NL>>

TextTwo == <<"-", " ", "0", "8", ":", "0", "0", " ", "b", "c", NL,
             "-", " ", "0", "9", ":", "0", "0", " ", "A", " ", "b", "c", NL>>

TextMany == repeatText(<<"-", " ", "a", NL>>, limit - 1)

SearchIdle ==
    [pc |-> "idle", keywords |-> <<>>, keywordSet |-> <<>>, excludeFileName |-> <<>>,
     pending |-> {}, results |-> <<>>, status |-> "none",
     read |-> {}, failed |-> {}]

SearchInit ==
    /\ codec = CodecIdle
    /\ deletedEntries = <<>>
    /\ now = StartTime
    /\ currentDate = StartTime
    /\ dailyEntries = <<>>
    /\ tasks = <<>>
    /\ hist = [ops |-> 0, faults |-> 0, ticks |-> 0, serial |-> TRUE]
    /\ search = SearchIdle
    /\ LET d0 == [n \in {NameSubdir} |-> [kind |-> "directory", text |-> <<>>]]
           d1 == [n \in {NameD1} |-> FileOf(TextMany)]
       IN  \/ dir = put(put(put(put(d0, NameNotes, TextOne), NameD3, TextTwo),
                             NameD2, TextOne), NameD1, TextTwo)
           \/ dir = put(put(d1, NameD2, TextTwo), NameD3, TextOne)

\* searchJournalFiles(handle, keywords, excludeDate) up to the first
\* handle.entries() step; excluded tells whether excludeDate was passed
SearchStart(keywords, excluded) ==
    /\ search.pc = "idle"
    /\ search' = [SearchIdle EXCEPT
                     !.pc = "scan",
                     !.keywords = keywords,
                     !.keywordSet = [i \in 1..Len(keywords) |-> toLowerCase(keywords[i])],
                     !.excludeFileName = IF excluded THEN getFileName(currentDate) ELSE <<>>,
                     !.pending = DOMAIN dir]
    /\ UNCHANGED <<codec, appVars>>

scanFailure_rejects(s, name) ==
    [s EXCEPT !.pc = "done", !.status = "rejected", !.results = <<>>]

\* the catch of the scan loop: the file is logged and skipped
scanFailure(s, name) == [s EXCEPT !.failed = @ \cup {name}]

\* the body of the scan loop for a file that was read
scanFile(s, name, text) ==
    LET dateObj == dateOfName(name)
        found == pushMatches(s.results, name, dateObj, parseMarkdown(text, dateObj),
                             s.keywordSet)
    IN  [s EXCEPT !.results = found,
                  !.read = @ \cup {name},
                  !.pc = IF Len(found) >= limit THEN "break" ELSE @]

\* one turn of for await (const [name, entry] of handle.entries()); the
\* order in which the directory yields its children is not specified
SearchVisit(name, ok) ==
    /\ search.pc = "scan"
    /\ name \in search.pending
    /\ CanFail(ok)
    /\ LET s == [search EXCEPT !.pending = @ \ {name}]
           wanted == /\ dir[name].kind = "file"
                     /\ isDatedName(name)
                     /\ ~(Len(search.excludeFileName) > 0 /\ name = search.excludeFileName)
       IN  /\ wanted \/ ok
           /\ search' = IF ~wanted THEN s
                        ELSE IF ok THEN scanFile(s, name, dir[name].text)
                        ELSE scanFailure(s, name)
    /\ hist' = Faulted(hist, ok)
    /\ UNCHANGED <<codec, dir, now, currentDate, dailyEntries, tasks, deletedEntries>>

\* handle.entries() itself throws: nothing catches it
SearchEnumFails ==
    /\ search.pc = "scan"
    /\ search.pending # {}
    /\ CanFail(FALSE)
    /\ search' = [search EXCEPT !.pc = "done", !.status = "rejected", !.results = <<>>]
    /\ hist' = Faulted(hist, FALSE)
    /\ UNCHANGED <<codec, dir, now, currentDate, dailyEntries, tasks, deletedEntries>>

\* return results.sort(...), after the loop ended or was left by break
SearchReturn ==
    /\ \/ search.pc = "break"
       \/ search.pc = "scan" /\ search.pending = {}
    /\ search' = [search EXCEPT !.pc = "done", !.status = "ok",
                                !.results = sortResults(search.results)]
    /\ UNCHANGED <<codec, appVars>>

SearchNext ==
    \/ \E ks \in KeywordLists, excluded \in BOOLEAN : SearchStart(ks, excluded)
    \/ \E name \in DOMAIN dir, ok \in BOOLEAN : SearchVisit(name, ok)
    \/ SearchEnumFails
    \/ SearchReturn

SpecSearch == SearchInit /\ [][SearchNext]_vars

\* ------------------------------------------------------------------------
\* getFileName and getJournalDates over the days of 2000-2099
\* ------------------------------------------------------------------------

\* String(n) of a number of the years 2000-2099
yearString(n) == Pad4(n)

\* `${year}-${month}-${day}` of getJournalDates
journalDateOf(name) ==
    yearString(2000 + parseInt2(SubSeq(name, 1, 2)))
        \o <<"-">> \o SubSeq(name, 3, 4) \o <<"-">> \o SubSeq(name, 5, 6)

\* the kind of a child is not looked at
getJournalDates_anyKind(d) ==
    {journalDateOf(name) : name \in {n \in DOMAIN d : isDatedName(n)}}

\* the set getJournalDates builds from the children of the directory
getJournalDates(d) ==
    {journalDateOf(name) : name \in {n \in DOMAIN d : d[n].kind = "file" /\ isDatedName(n)}}

FirstDay == DayNumber(2000, 0, 1)

LastDay == DayNumber(2099, 11, 31)

\* the times of day a Date may carry: the first and the last millisecond
DayTimes == {0, MsPerDay - 1}

NamesIdle == [pc |-> "idle", date |-> StartTime, name |-> <<>>, dates |-> {}]

NamesInit ==
    /\ codec = NamesIdle
    /\ dir = put(put([n \in {NameSubdir} |-> [kind |-> "directory", text |-> <<>>]],
                     NameNotes, TextOne), NameD1, TextOne)
    /\ now = StartTime
    /\ currentDate = StartTime
    /\ dailyEntries = <<>>
    /\ tasks = <<>>
    /\ hist = <<>>
    /\ search = <<>>
    /\ deletedEntries = <<>>

\* fileName = getFileName(date); handle.getFileHandle(fileName, { create: true }):
\* the day's file exists afterwards, unless the name is taken by a directory
OpenDayFile(day, ms) ==
    /\ codec.pc = "idle"
    /\ LET date == [day |-> day, ms |-> ms]
           name == getFileName(date)
           taken == name \in DOMAIN dir /\ dir[name].kind = "directory"
       IN  /\ codec' = [codec EXCEPT !.pc = IF taken THEN "rejected" ELSE "named",
                                     !.date = date, !.name = name]
           /\ dir' = IF name \in DOMAIN dir THEN dir ELSE put(dir, name, <<>>)
    /\ UNCHANGED <<search, now, currentDate, dailyEntries, tasks, hist, deletedEntries>>

\* getJournalDates(handle)
ListJournalDates ==
    /\ codec.pc \in {"named", "rejected"}
    /\ codec' = [codec EXCEPT !.pc = "listed", !.dates = getJournalDates(dir)]
    /\ UNCHANGED <<appVars, search>>

NamesNext ==
    \/ /\ codec.pc = "idle"
       /\ \E day \in FirstDay..LastDay, ms \in DayTimes : OpenDayFile(day, ms)
    \/ ListJournalDates

SpecNames == NamesInit /\ [][NamesNext]_vars

\* ------------------------------------------------------------------------
\* Claims
\* ------------------------------------------------------------------------

WholeMinute(date) == date.ms % MsPerMinute = 0

SingleLine(content) == \A i \in 1..Len(content) : content[i] \notin LineTerminators

\* the entries C1 speaks about
C1_WellFormed(entries) ==
    \A i \in 1..Len(entries) :
        /\ entries[i].hasTime = TRUE
        /\ WholeMinute(entries[i].timestamp)
        /\ SingleLine(entries[i].content)
        /\ ~includes(entries[i].content, Marker)

SameEntry(a, b) ==
    /\ a.content = b.content
    /\ getHours(a.timestamp) = getHours(b.timestamp)
    /\ getMinutes(a.timestamp) = getMinutes(b.timestamp)
    /\ a.source = b.source
    /\ a.isImportant = b.isImportant

SameEntries(as, bs) ==
    /\ Len(as) = Len(bs)
    /\ \A i \in 1..Len(as) : SameEntry(as[i], bs[i])

\* C1: round trip.  For entries with explicit whole-minute times, single-line
\* content and no '#important' in the content, parsing the serialized day
\* text yields the same entries in the same order (content, time, source,
\* isImportant).
C1_RoundTrip ==
    (codec.pc \in {"parsed", "done"} /\ C1_WellFormed(codec.entries))
        => SameEntries(codec.parsed, codec.entries)

\* C2: idempotent re-serialization.  Serializing the parse of a text that
\* was produced by serializing a list of entries yields exactly that text.
C2_Idempotent ==
    codec.pc = "done" => codec.again = codec.text

\* the lines of a text, without the empty piece after a trailing newline
LinesOf(text) ==
    LET ls == split(text)
    IN  IF Len(ls[Len(ls)]) = 0 THEN Take(ls, Len(ls) - 1) ELSE ls

\* append call p has just written the file (this step closed its writable)
AppendCommits(p) ==
    /\ tasks[p].op = "append" /\ tasks[p].pc = "write"
    /\ tasks'[p].pc = "returned" /\ tasks'[p].result = "ok"

\* C3: append preserves prior content.  When the read of the existing file
\* succeeded, appendToJournal writes old text + separator + formatEntry(entry)
\* + newline, the separator being a newline only if the old text is non-empty
\* and does not end in a newline; the old text is a prefix of the new text,
\* and the lines of the new text are the old lines followed by the new line.
C3_AppendPreserves ==
    [][\A p \in Procs :
         (AppendCommits(p) /\ tasks[p].readOk) =>
            LET old  == tasks[p].old
                new  == dir'[getFileName(tasks[p].date)].text
                line == formatEntry(tasks[p].entry)
                sep  == IF Len(old) > 0 /\ old[Len(old)] # NL THEN <<NL>> ELSE <<>>
            IN  /\ new = old \o sep \o line \o <<NL>>
                /\ startsWith(new, old)
                /\ LinesOf(new) = LinesOf(old) \o <<line>>]_vars

\* an append that read a text without a trailing newline has returned
C3_Witness ==
    \E p \in Procs :
        /\ tasks[p].op = "append" /\ tasks[p].pc = "returned" /\ tasks[p].result = "ok"
        /\ tasks[p].readOk
        /\ Len(tasks[p].old) > 0 /\ ~endsWith(tasks[p].old, <<NL>>)
        /\ textOf(dir, getFileName(tasks[p].date))
             = tasks[p].old \o <<NL>> \o formatEntry(tasks[p].entry) \o <<NL>>

\* C4: readDailyJournal never rejects; it returns the empty list when the
\* file is absent or unreadable and parseMarkdown(file text, day) otherwise.
C4_ReadTotal ==
    \A p \in Procs :
        (tasks[p].op = "read" /\ tasks[p].pc = "returned") =>
            /\ tasks[p].result = "ok"
            /\ tasks[p].value = IF tasks[p].readOk
                                THEN parseMarkdown(tasks[p].old, tasks[p].date)
                                ELSE <<>>

\* a read of a file that is on disk failed and returned the empty list
C4_Witness ==
    \E p \in Procs :
        /\ tasks[p].op = "read" /\ tasks[p].pc = "returned"
        /\ ~tasks[p].readOk
        /\ getFileName(tasks[p].date) \in DOMAIN dir
        /\ Len(tasks[p].old) > 0
        /\ tasks[p].result = "ok" /\ tasks[p].value = <<>>

\* C5: lost update.  An append whose read came before a write that added
\* lines to the file still completes successfully, and its write replaces
\* the file by the text it read plus its own line: the file gains no line
\* although an append completed, so an entry written in between is lost.
C5_LostUpdate ==
    [][\A p \in Procs :
         LET name == getFileName(tasks[p].date)
             cur  == textOf(dir, name)
         IN  (/\ tasks[p].op = "append" /\ tasks[p].pc = "write" /\ tasks[p].readOk
              /\ tasks'[p].committed
              /\ startsWith(cur, tasks[p].old)
              /\ Len(LinesOf(cur)) > Len(LinesOf(tasks[p].old))) =>
                /\ tasks'[p].result = "ok"
                /\ Len(LinesOf(dir'[name].text)) <= Len(LinesOf(cur))
                /\ LinesOf(dir'[name].text)
                     = LinesOf(tasks[p].old) \o <<formatEntry(tasks[p].entry)>>]_vars

\* two handleAddEntry calls have finished, both entries are marked saved in
\* memory, and the day's file holds the line of only one of them
C5_Witness ==
    /\ \A p \in Procs : ~InFlight(p)
    /\ \E i, j \in 1..Len(dailyEntries) :
         LET lines == LinesOf(textOf(dir, getFileName(currentDate)))
             has(e) == \E k \in 1..Len(lines) : lines[k] = formatEntry(e)
         IN  /\ i # j
             /\ dailyEntries[i].isSaved /\ dailyEntries[j].isSaved
             /\ dailyEntries[i].id[1] = "now" /\ dailyEntries[j].id[1] = "now"
             /\ dailyEntries[i].id # dailyEntries[j].id
             /\ ~has(dailyEntries[i])
             /\ has(dailyEntries[j])

\* C6: caller-serialized calls are ordered and durable.  A store call
\* returns successfully only after its write was closed, and while every
\* call was awaited before the next one was issued every completed append
\* leaves the prior content of the file followed by its own line, so the
\* file holds the prior content and then the appended lines in call order.
C6_SerialDurable ==
    [][\A p \in Procs :
         /\ (tasks[p].op \in {"append", "rewrite"} /\ tasks'[p].pc = "returned"
                 /\ tasks'[p].result = "ok") => tasks'[p].committed
         /\ (AppendCommits(p) /\ hist.serial) =>
               LET before == textOf(dir, getFileName(tasks[p].date))
                   after  == textOf(dir', getFileName(tasks[p].date))
               IN  /\ startsWith(after, before)
                   /\ LinesOf(after) = LinesOf(before) \o <<formatEntry(tasks[p].entry)>>]_vars

\* C17: a completed appendToJournal never loses stored text. Whenever an
\* append that no other call overlapped closes its write, the read of the
\* existing file having succeeded or failed, the text the file held before
\* is a prefix of the text it holds afterwards.
C17_AppendKeepsText ==
    [][\A p \in Procs :
         (AppendCommits(p) /\ hist.serial) =>
            startsWith(textOf(dir', getFileName(tasks[p].date)),
                       textOf(dir, getFileName(tasks[p].date)))]_vars

\* --- searchJournalFiles ---

Returned(s) == s.pc = "done" /\ s.status = "ok"

\* what a scan of the file alone pushes for the keywords of the call
matchesOf(s, name) ==
    pushMatches(<<>>, name, dateOfName(name),
                parseMarkdown(dir[name].text, dateOfName(name)), s.keywordSet)

\* the distinct keywords of the call, compared case-insensitively, that the
\* content of a result contains
distinctMatched(item) ==
    {toLowerCase(search.keywords[k]) : k \in
        {k \in 1..Len(search.keywords) :
            includes(toLowerCase(item.fullContent), toLowerCase(search.keywords[k]))}}

\* C7: scan fault isolation. A turn of the scan loop, the turn of a file that
\* cannot be read included, never rejects the call and keeps the results
\* collected so far; a call that returns holds every match of every file it
\* read.
C7_ScanIsolation ==
    [][/\ (search.pc = "scan" /\ search'.pending # search.pending) =>
            /\ search'.status # "rejected"
            /\ search'.pc \in {"scan", "break"}
            /\ Len(search'.results) >= Len(search.results)
            /\ Take(search'.results, Len(search.results)) = search.results
       /\ Returned(search') =>
            \A name \in search'.read :
                \A expected \in {matchesOf(search', name)} :
                    \A returned \in {search'.results} :
                        \A i \in 1..Len(expected) :
                            \E j \in 1..Len(returned) : returned[j] = expected[i]
      ]_vars

\* three dated files, the middle one failed, the call returned the matches
\* of the other two
C7_Witness ==
    /\ Returned(search)
    /\ search.failed = {NameD2}
    /\ search.read = {NameD1, NameD3}
    /\ \E i, j \in 1..Len(search.results) :
          /\ search.results[i].id[1] = NameD1
          /\ search.results[j].id[1] = NameD3

\* C8: relevance ordering. The returned list is ordered by relevanceScore
\* descending and, among equal scores, by date descending; a result that
\* matches more keywords stands before every result that matches fewer.
C8_RelevanceOrder ==
    Returned(search) =>
        LET r == search.results
            matches == [i \in 1..Len(r) |-> Cardinality(distinctMatched(r[i]))]
            day == [i \in 1..Len(r) |-> dateOfName(r[i].id[1]).day]
        IN  \A i, j \in 1..Len(r) :
              /\ i < j => /\ r[i].relevanceScore >= r[j].relevanceScore
                          /\ r[i].relevanceScore = r[j].relevanceScore => day[i] >= day[j]
              /\ matches[i] > matches[j] => i < j

\* C9: result cap. A call never returns more than limit results.
C9_ResultCap == Returned(search) => Len(search.results) <= limit

\* C10: for every result, relevanceScore is the number of distinct keywords,
\* compared case-insensitively, that the content contains, and keyword is
\* the longest of them.
C10_DistinctScore ==
    Returned(search) =>
        \A i \in 1..Len(search.results) :
            LET item == search.results[i]
            IN  /\ item.relevanceScore = Cardinality(distinctMatched(item))
                /\ item.keyword \in distinctMatched(item)
                /\ \A k \in distinctMatched(item) : Len(k) <= Len(item.keyword)

\* the dated files a call has to scan: children of kind file named six
\* digits + '.md', the excluded day's file left out
scannedNames(s) ==
    {name \in DOMAIN dir : /\ dir[name].kind = "file"
                           /\ isDatedName(name)
                           /\ name # s.excludeFileName}

\* the content contains at least one keyword of the call, case-insensitively
matchesAny(s, content) ==
    \E k \in 1..Len(s.keywords) :
        includes(toLowerCase(content), toLowerCase(s.keywords[k]))

\* C11: match rule. A call that returned below the cap holds exactly one
\* result for every parsed entry, of every dated file it could read other
\* than the excluded day's file, whose content contains a keyword, and no
\* other result.
C11_MatchRule ==
    (Returned(search) /\ Len(search.results) < limit) =>
        \A r \in {search.results} :
            /\ \A name \in scannedNames(search) \ search.failed :
                 \A es \in {parseMarkdown(dir[name].text, dateOfName(name))} :
                    \A k \in 1..Len(es) :
                        Cardinality({i \in 1..Len(r) : r[i].id = <<name, es[k].id>>})
                            = (IF matchesAny(search, es[k].content) THEN 1 ELSE 0)
            /\ \A i \in 1..Len(r) :
                 /\ r[i].id[1] \in scannedNames(search) \ search.failed
                 /\ \E es \in {parseMarkdown(dir[r[i].id[1]].text, dateOfName(r[i].id[1]))} :
                       \E k \in 1..Len(es) : /\ es[k].id = r[i].id[2]
                                              /\ es[k].content = r[i].fullContent

\* a call with the displayed day excluded returned below the cap, with a
\* result from each of two files and an entry of a scanned file left out
C11_Witness ==
    /\ Returned(search) /\ Len(search.results) < limit
    /\ search.excludeFileName = NameD3 /\ NameD3 \in DOMAIN dir
    /\ search.read = {NameD1, NameD2}
    /\ \E i, j \in 1..Len(search.results) :
          search.results[i].id[1] = NameD1 /\ search.results[j].id[1] = NameD2
    /\ \E e \in {parseMarkdown(dir[NameD1].text, dateOfName(NameD1))} :
          \E k \in 1..Len(e) : ~matchesAny(search, e[k].content)

\* --- formatEntry ---

markerCount(text) == Cardinality(Occurrences(text, Marker))

\* C12 as stated: importance de-duplication. The line of an important entry
\* whose content already contains the marker holds exactly one marker; the
\* line of an important entry without the marker ends with one appended
\* ' #important'; the line of an entry that is not important ends with its
\* content.
C12_ExactlyOne ==
    codec.pc = "line" =>
        LET e == codec.entry
        IN  /\ (e.isImportant /\ includes(e.content, Marker)) => markerCount(codec.line) = 1
            /\ (e.isImportant /\ ~includes(e.content, Marker)) =>
                    endsWith(codec.line, e.content \o <<" ">> \o Marker)
            /\ ~e.isImportant => endsWith(codec.line, e.content)

\* C12 amended: the line of an important entry whose content already
\* contains the marker ends with the content, no marker being appended, and
\* holds exactly one marker when the content holds exactly one and the
\* source none; the other two cases are as stated.
C12_NoMarkerAdded ==
    codec.pc = "line" =>
        LET e == codec.entry
        IN  /\ (e.isImportant /\ includes(e.content, Marker)) =>
                    /\ endsWith(codec.line, e.content)
                    /\ (markerCount(e.content) = 1 /\ markerCount(e.source) = 0) =>
                            markerCount(codec.line) = 1
            /\ (e.isImportant /\ ~includes(e.content, Marker)) =>
                    endsWith(codec.line, e.content \o <<" ">> \o Marker)
            /\ ~e.isImportant => endsWith(codec.line, e.content)

\* an important entry whose content holds the marker once was formatted
C12_Witness ==
    /\ codec.pc = "line"
    /\ codec.entry.isImportant
    /\ markerCount(codec.entry.content) = 1
    /\ markerCount(codec.line) = 1

\* --- getFileName, getJournalDates ---

\* C15: filename mapping. The name of a day of 2000-2099 is six digits and
\* '.md'; read back as two-digit year, month and day of the month it gives
\* the day, so the digits are year mod 100, zero-padded month and zero-padded
\* day and distinct days have distinct names; 2024-01-05 gives 240105.md and
\* 2099-12-31 gives 991231.md.
C15_FileName ==
    codec.pc \in {"named", "rejected", "listed"} =>
        /\ isDatedName(codec.name)
        /\ dateOfName(codec.name).day = codec.date.day
        /\ codec.date.day = DayNumber(2024, 0, 5) =>
              codec.name = <<"2", "4", "0", "1", "0", "5", ".", "m", "d">>
        /\ codec.date.day = DayNumber(2099, 11, 31) =>
              codec.name = <<"9", "9", "1", "2", "3", "1", ".", "m", "d">>

\* the last day of the range was named
C15_Witness ==
    /\ codec.pc = "named"
    /\ codec.date = [day |-> DayNumber(2099, 11, 31), ms |-> MsPerDay - 1]
    /\ codec.name = <<"9", "9", "1", "2", "3", "1", ".", "m", "d">>

\* '20YY-MM-DD' read off a name of six digits + '.md'
isoOfName(name) ==
    <<"2", "0">> \o SubSeq(name, 1, 2) \o <<"-">> \o SubSeq(name, 3, 4)
        \o <<"-">> \o SubSeq(name, 5, 6)

\* C16: getJournalDates returns exactly the strings '20YY-MM-DD' of the
\* children of kind file named six digits + '.md', and holds the ISO date
\* yyyy-MM-dd of every day of 2000-2099 whose file getFileName(day) exists.
C16_JournalDates ==
    codec.pc = "listed" =>
        /\ codec.dates = {isoOfName(n) : n \in
                             {n \in DOMAIN dir : dir[n].kind = "file" /\ isDatedName(n)}}
        /\ (getFileName(codec.date) \in DOMAIN dir
                /\ dir[getFileName(codec.date)].kind = "file") =>
              formatISO(codec.date) \in codec.dates

\* the dates were listed for a directory holding a day's file next to a
\* sub-directory and a file of another name
C16_Witness ==
    /\ codec.pc = "listed"
    /\ codec.date.day = DayNumber(2024, 0, 5)
    /\ formatISO(codec.date) \in codec.dates
    /\ Cardinality(codec.dates) = 2
    /\ {NameSubdir, NameNotes} \subseteq DOMAIN dir

\* --- the handlers of the day view ---

\* the rewriteJournal call of slot p replaces the day's file in this step
RewriteCommits(p) ==
    /\ tasks[p].op = "rewrite" /\ tasks[p].pc = "write"
    /\ tasks'[p].pc = "returned" /\ tasks'[p].committed

nonDecreasing(entries) ==
    \A i \in 1..(Len(entries) - 1) :
        ~TimeLess(entries[i + 1].timestamp, entries[i].timestamp)

\* C13: after every full rewrite the application performs (edit, delete,
\* toggle important), on any displayed day, the file holds one head line per
\* entry, ends with a newline, and the entries obtained by reading it again
\* are in non-decreasing timestamp order
C13_RewriteOrdered ==
    [][\A p \in Procs :
         RewriteCommits(p) =>
            \A text \in {textOf(dir', getFileName(tasks[p].date))} :
            \A reread \in {parseMarkdown(text, tasks[p].date)} :
               /\ endsWith(text, <<NL>>)
               /\ Len(reread) = Len(tasks[p].entries)
               /\ nonDecreasing(reread)]_vars

\* the store call of slot p fails in createWritable, write or close in this step
WriteFails(p) ==
    /\ tasks[p].op \in {"append", "rewrite"} /\ tasks[p].pc = "write"
    /\ tasks'[p].pc = "returned" /\ ~tasks'[p].committed

\* C14: when the write step of appendToJournal or rewriteJournal fails the
\* call rejects to its caller and the file is left as it was (the write is not
\* tried again, the failure is not turned into a success), and the handler
\* that awaited it (handleAddEntry, handleSaveEntry) does not mark the entry
\* saved: the day list is left as it was
C14_WriteFailurePropagates ==
    [][\A p \in Procs :
         WriteFails(p) =>
            /\ tasks'[p].result = "rejected"
            /\ dir' = dir
            /\ dailyEntries' = dailyEntries]_vars

\* a handleSaveEntry call whose append read the file and then failed to write
\* has returned, and its entry is still shown as not saved
C14_Witness ==
    \E p \in Procs :
        /\ tasks[p].handler = "save" /\ tasks[p].pc = "returned"
        /\ tasks[p].readOk /\ tasks[p].result = "rejected"
        /\ \E i \in 1..Len(dailyEntries) :
               dailyEntries[i].id = tasks[p].entry.id /\ ~dailyEntries[i].isSaved

LoadInFlight == \E p \in Procs : tasks[p].handler = "load" /\ InFlight(p)

\* the entries of a list that were read from a file were read from the file
\* of the day date
loadedFrom(entries, date) ==
    \A i \in 1..Len(entries) :
        entries[i].id[1] = "parsed" => entries[i].id[2].day = date.day

\* C18: whenever no load is in flight, the entries of the day list that came
\* from a file came from the file of the displayed date, even when the user
\* switched dates while an earlier read was pending; and a rewrite (edit,
\* delete, toggle important) never writes entries loaded from one day into
\* the file of another day
C18_DisplayedDay ==
    /\ [](~LoadInFlight => loadedFrom(dailyEntries, currentDate))
    /\ [][\A p \in Procs :
            RewriteCommits(p) => loadedFrom(tasks[p].entries, tasks[p].date)]_vars

\* the handleRestoreEntry call of slot p returns in this step, by its alert or
\* after its append (a call whose append rejected is left aside)
RestoreReturns(p) ==
    /\ tasks'[p].handler = "restore" /\ tasks'[p].pc = "returned"
    /\ tasks'[p] # tasks[p]
    /\ tasks'[p].result # "rejected"

inTrash(trash, id) == \E k \in 1..Len(trash) : trash[k].id = id

\* the names of the files whose text differs between two directories
changedFiles(d, e) ==
    {n \in DOMAIN d \cup DOMAIN e : n \notin DOMAIN d \/ n \notin DOMAIN e \/ d[n] # e[n]}

\* the file of the day key holds the head line of entry
inDayFile(d, key, entry) ==
    \E n \in DOMAIN d :
        /\ isDatedName(n) /\ isoOfName(n) = key
        /\ \E i \in 1..Len(split(d[n].text)) : split(d[n].text)[i] = formatEntry(entry)

DeleteStarts(p) ==
    /\ ~InFlight(p)
    /\ tasks'[p].handler = "delete" /\ tasks'[p].pc = "open"

\* the number of entries of a list with the id
countId(entries, id) == Cardinality({i \in 1..Len(entries) : entries[i].id = id})

\* the number of lines of a text equal to line
countLine(text, line) ==
    Cardinality({i \in 1..Len(LinesOf(text)) : LinesOf(text)[i] = line})

\* C20: handleDeleteEntry(id) for an entry of the displayed day adds exactly
\* one DeletedEntry for it, with originalDateKey the displayed day, to the
\* deleted set and removes it, and nothing else, from the day list; when its
\* rewrite completes the day's file reads back as many entries as were left
\* in the list and holds the head line of each, and every other entry of the day as it was listed
\* before the delete is still in the list that is written
C20_DeleteLifecycle ==
    [][\A p \in Procs :
         /\ DeleteStarts(p) =>
               /\ Len(deletedEntries') = Len(deletedEntries) + 1
               /\ deletedEntries'[Len(deletedEntries')].id = tasks'[p].entry.id
               /\ deletedEntries'[Len(deletedEntries')].originalDateKey = formatISO(currentDate)
               /\ countId(dailyEntries', tasks'[p].entry.id) = 0
               /\ Len(dailyEntries') = Len(dailyEntries) - 1
               /\ tasks'[p].entries = dailyEntries'
         /\ (RewriteCommits(p) /\ tasks[p].handler = "delete") =>
               \A text \in {textOf(dir', getFileName(tasks[p].date))} :
                  /\ Len(parseMarkdown(text, tasks[p].date)) = Len(tasks[p].entries)
                  /\ \A i \in 1..Len(tasks[p].entries) :
                        countLine(text, formatEntry(tasks[p].entries[i])) >= 1]_vars

\* --- parseMarkdown ---

isBlank(line) == \A i \in 1..Len(line) : line[i] \in WhiteSpace

\* the line (counted from 1) that made entry k: the index kept in its id
headLine(entries, k) == entries[k].id[3] + 1

\* the non-blank lines after the head of entry k and before the next head
followers(lines, entries, k) ==
    {i \in 1..Len(lines) :
        /\ ~isBlank(lines[i])
        /\ headLine(entries, k) < i
        /\ k < Len(entries) => i < headLine(entries, k + 1)}

\* the text of a parse has been parsed
Parsed == codec.pc \in {"parsed", "done"}

\* C27: parseMarkdown returns for every text; blank lines make nothing; every
\* non-blank line either makes exactly one entry or is appended, trimmed and
\* after a newline, to the content of the entry made last; a non-bullet line
\* before any entry makes an untimed entry holding it
C27_ParseKeepsText ==
    Parsed =>
       \A lines \in {split(codec.text)} :
       \A es \in {codec.parsed} :
          /\ \A k \in 1..Len(es) :
                /\ headLine(es, k) \in 1..Len(lines)
                /\ ~isBlank(lines[headLine(es, k)])
                /\ k < Len(es) => headLine(es, k) < headLine(es, k + 1)
          /\ \A i \in 1..Len(lines) :
                ~isBlank(lines[i]) =>
                   \/ \E k \in 1..Len(es) : headLine(es, k) = i
                   \/ \E k \in 1..Len(es) : i \in followers(lines, es, k)
          /\ \A k \in 1..Len(es) :
                \A parts \in {split(es[k].content)} :
                \A fs \in {followers(lines, es, k)} :
                   /\ Len(parts) = 1 + Cardinality(fs)
                   /\ includes(lines[headLine(es, k)], parts[1])
                   /\ \A i \in fs :
                         parts[1 + Cardinality({j \in fs : j <= i})] = trim(lines[i])
          /\ \A i \in 1..Len(lines) :
                (/\ ~isBlank(lines[i])
                 /\ \A j \in 1..(i - 1) : isBlank(lines[j])
                 /\ ~startsWith(lines[i], <<"-", " ">>)
                 /\ ~startsWith(lines[i], <<"*", " ">>)) =>
                   /\ Len(es) > 0 /\ headLine(es, 1) = i
                   /\ es[1].hasTime = FALSE
                   /\ Take(es[1].content, Len(trim(lines[i]))) = trim(lines[i])

\* the text 'b', a blank line, ' c ' has been parsed: one entry made by the
\* orphan line, with the trimmed third line appended after a newline
C27_Witness ==
    /\ codec.pc = "parsed"
    /\ codec.text = <<"b", NL, NL, " ", "c", " ">>
    /\ Len(codec.parsed) = 1
    /\ codec.parsed[1].content = <<"b", NL, "c">>

\* '- ' + H:mm or HH:mm + a space: what follows the space is the optional
\* ' [source]' and the content
timedShape(line) ==
    \E h \in {1, 2} :
        /\ Len(line) >= h + 6
        /\ line[1] = "-" /\ line[2] = " "
        /\ \A i \in 3..(2 + h) : IsDigit(line[i])
        /\ line[3 + h] = ":"
        /\ IsDigit(line[4 + h]) /\ IsDigit(line[5 + h])
        /\ line[6 + h] = " "

\* '- ' or '* ' + text
bulletShape(line) == Len(line) >= 2 /\ line[1] \in {"-", "*"} /\ line[2] = " "

\* the line has a ' [' right after its time
hasBracket(line) ==
    \E h \in {1, 2} : Len(line) >= h + 7 /\ line[6 + h] = " " /\ line[7 + h] = "["

\* C28: each non-blank line is classified by the timed pattern first, then by
\* the bullet pattern, then as continuation or orphan: a line of the timed
\* shape makes a timed entry, with source 'user' when it has no bracketed
\* source; a bullet line that is not of the timed shape (a malformed time
\* such as '- 9:0 a') makes an untimed entry at 00:00 with source 'user' whose
\* content is the whole text after the bullet; any other head line makes an
\* untimed entry of source 'user'; a line that was appended is neither timed
\* nor a bullet
C28_LinePriority ==
    Parsed =>
       \A lines \in {split(codec.text)} :
       \A es \in {codec.parsed} :
          /\ \A k \in 1..Len(es) :
                \A line \in {lines[headLine(es, k)]} :
                   IF timedShape(line)
                   THEN /\ es[k].hasTime = TRUE
                        /\ ~hasBracket(line) => es[k].source = SrcUser
                   ELSE /\ es[k].hasTime = FALSE
                        /\ es[k].timestamp = setHours(codec.date, 0, 0)
                        /\ es[k].source = SrcUser
                        /\ bulletShape(line) =>
                              split(es[k].content)[1] = trim(Drop(line, 2))
                        /\ ~bulletShape(line) =>
                              split(es[k].content)[1] = trim(line)
          /\ \A i \in 1..Len(lines) :
                (~isBlank(lines[i]) /\ \A k \in 1..Len(es) : headLine(es, k) # i) =>
                   ~timedShape(lines[i]) /\ ~bulletShape(lines[i])

\* '- 9:0 a' followed by '- 08:00 a' has been parsed: the first line made an
\* untimed entry with content '9:0 a', the second a timed entry of source 'user'
C28_Witness ==
    /\ codec.pc = "parsed"
    /\ codec.text = <<"-", " ", "9", ":", "0", " ", "a", NL,
                      "-", " ", "0", "8", ":", "0", "0", " ", "a">>
    /\ Len(codec.parsed) = 2
    /\ codec.parsed[1].hasTime = FALSE
    /\ codec.parsed[1].content = <<"9", ":", "0", " ", "a">>
    /\ codec.parsed[2].hasTime = TRUE
    /\ codec.parsed[2].source = SrcUser

\* C29: the ids of the entries returned by one parseMarkdown call are
\* pairwise distinct, each made of the epoch milliseconds of the day and the
\* index of the entry's head line, and parsing the same text for the same
\* day again gives the same ids in the same order
C29_StableIds ==
    /\ Parsed =>
          \A es \in {codec.parsed} :
             /\ \A i, j \in 1..Len(es) : es[i].id = es[j].id => i = j
             /\ \A k \in 1..Len(es) :
                   /\ es[k].id[2].day = codec.date.day
                   /\ ~isBlank(split(codec.text)[es[k].id[3] + 1])
    /\ codec.pc = "done" =>
          /\ Len(codec.again) = Len(codec.parsed)
          /\ \A k \in 1..Len(codec.parsed) : codec.again[k].id = codec.parsed[k].id

\* C22: every entry parsed for a day has a timestamp on that day, at 00:00
\* when the entry has no explicit time; timed lines with an hour or a minute
\* out of range ('- 24:00 a', '- 9:75 a') included
C22_TimestampOnDay ==
    Parsed =>
       \A k \in 1..Len(codec.parsed) :
          /\ codec.parsed[k].timestamp.day = codec.date.day
          /\ ~codec.parsed[k].hasTime => codec.parsed[k].timestamp.ms = 0

\* --- isSaved and the day's file ---

Settled == \A p \in Procs : ~InFlight(p)

\* C21: with no call in flight, an entry of the displayed day has isSaved
\* true only if its line is in the day's file, and an entry with isSaved
\* false is not in the day's file
C21_SavedReflectsDisk ==
    Settled =>
       \A text \in {textOf(dir, getFileName(currentDate))} :
       \A i \in 1..Len(dailyEntries) :
          /\ dailyEntries[i].isSaved => countLine(text, formatEntry(dailyEntries[i])) >= 1
          /\ ~dailyEntries[i].isSaved => countLine(text, formatEntry(dailyEntries[i])) = 0

\* the number of entries of the list whose line is line
countEntries(entries, line) ==
    Cardinality({i \in 1..Len(entries) : formatEntry(entries[i]) = line})

\* C24: after any sequence of add, save and unsave on the displayed day in
\* which every I/O step succeeded, each entry of the day list is at most once
\* in the day's file: no line of an entry is in the file more often than
\* there are entries with that line
C24_NoDuplicateLines ==
    (Settled /\ hist.faults = 0) =>
       \A text \in {textOf(dir, getFileName(currentDate))} :
       \A i \in 1..Len(dailyEntries) :
          \A line \in {formatEntry(dailyEntries[i])} :
             countLine(text, line) <= countEntries(dailyEntries, line)

\* --- the trash and the ids ---

\* the list without its k-th element
withoutAt(list, k) == Take(list, k - 1) \o Drop(list, k)

\* C23: whenever a permanent delete or a restore takes an entry out of the
\* deleted set, exactly that entry leaves it and every other deleted entry
\* stays, also when the day was read again between two deletions
C23_TrashOneEntry ==
    [][Len(deletedEntries') < Len(deletedEntries) =>
          \E k \in 1..Len(deletedEntries) :
              deletedEntries' = withoutAt(deletedEntries, k)]_vars

\* C26: in every reachable state the ids of the entries of the day list are
\* pairwise distinct, across delete, re-read of the day and restore
C26_DistinctIds ==
    \A i, j \in 1..Len(dailyEntries) :
        dailyEntries[i].id = dailyEntries[j].id => i = j

\* --- toggling importance ---

\* C25: when the rewrite of a handleToggleImportant call completes, with no
\* other call in flight since the session was observed, reading the day again
\* gives, for every saved entry, the isImportant value held in memory after
\* the toggle and the content the entry had before it
C25_TogglePersists ==
    [][\A p \in Procs :
         (RewriteCommits(p) /\ tasks[p].handler = "toggle" /\ hist.serial) =>
            \A es \in {tasks[p].entries} :
            \A reread \in {readResult(TRUE, textOf(dir', getFileName(tasks[p].date)),
                                       tasks[p].date).value} :
               /\ Len(reread) = Len(es)
               /\ \A i \in 1..Len(es) :
                     es[i].isSaved =>
                        /\ reread[i].isImportant = es[i].isImportant
                        /\ reread[i].content = es[i].content]_vars

\* --- rewriteJournal and the list of its caller ---

\* C30: rewriteJournal leaves the list passed by its caller as it was: the
\* same elements in the same order after the call as before it
C30_CallerListKept ==
    [][(codec.pc = "input" /\ codec'.pc = "serialized") =>
          codec'.entries = codec.entries]_vars

====
